---- MODULE Spec2Model ----
(***************************************************************************)
(* Edu Tutor AI (src/app.py): a Streamlit chat application.  Every browser *)
(* session runs the script against its own st.session_state; all sessions  *)
(* share one MongoDB database (collections users and interactions) and the *)
(* cached AI clients.  Texts are sequences of characters, scores are exact *)
(* rationals <<numerator, denominator>>.                                   *)
(***************************************************************************)
EXTENDS Integers, Sequences, FiniteSets, TLC

VARIABLES
    db,            \* init_mongodb(): TRUE = database handle, FALSE = None
    ai,            \* init_ai_models(): [sa, hf], TRUE = object, FALSE = None
    users,         \* db['users'], in natural (insertion) order
    interactions,  \* db['interactions'], in natural (insertion) order
    clock,         \* the latest time datetime.now() has returned
    authenticated, \* st.session_state.authenticated, per session
    username,      \* st.session_state.username, per session
    chat_history,  \* st.session_state.chat_history, per session
    user_analytics,\* st.session_state.user_analytics, per session
    pc,            \* where each session's running handler stands
    pending,       \* the document the running handler is about to write
    registered,    \* history: the <<username, password>> register_user accepted
    save_failed,   \* history: a store operation of save_interaction has raised
    score_sum,     \* history: per session, the sum of the processed scores
    ignored,       \* history: the last Send that was not processed
    call           \* the most recent direct call of a pure function

vars == <<db, ai, users, interactions, clock, authenticated, username,
          chat_history, user_analytics, pc, pending, registered,
          save_failed, score_sum, ignored, call>>

store == <<users, interactions>>
session_state == <<authenticated, username, chat_history, user_analytics>>
history == <<registered, save_failed, score_sum, ignored>>

----------------------------------------------------------------------------
(* Bounds of the model *)

MaxUsers == 2
MaxSends == 2
MaxClock == 1
MaxContext == 2

Sessions == {"s1", "s2"}

None == <<"None">>
Empty == <<>>
Usernames == {<<"a">>, <<"b">>}
Passwords == {<<"1">>, <<"2">>}
Emails == {<<"e">>}
Salts == {"x", "y"}
ChatInputs == {<<>>, <<" ">>, <<"h", "i">>}
NoDoc == [kind |-> "none"]
NoCall == [fn |-> "none"]

----------------------------------------------------------------------------
(* Exact rational arithmetic, standing for Python's float arithmetic *)

RECURSIVE GCD(_, _)
GCD(a, b) == IF b = 0 THEN a ELSE GCD(b, a % b)

Abs(n) == IF n < 0 THEN -n ELSE n

Rat(n, d) ==
    LET g == GCD(Abs(n), d)
    IN  IF n = 0 THEN <<0, 1>> ELSE <<n \div g, d \div g>>

RAdd(x, y) == Rat(x[1] * y[2] + y[1] * x[2], x[2] * y[2])
RSub(x, y) == Rat(x[1] * y[2] - y[1] * x[2], x[2] * y[2])
RMulInt(x, k) == Rat(x[1] * k, x[2])
RDivInt(x, k) == Rat(x[1], x[2] * k)
RLess(x, y) == x[1] * y[2] < y[1] * x[2]

----------------------------------------------------------------------------
(* Python truthiness of a str, and str.strip() == "" *)

truthy(text) == Len(text) > 0

is_blank(text) == \A i \in 1..Len(text) : text[i] = " "

----------------------------------------------------------------------------
(* Authentication functions *)

hash_password(password, salt) ==
    [salt |-> salt, digest |-> <<salt>> \o password]

verify_password(password, hashed) ==
    hash_password(password, hashed.salt) = hashed

Matching(coll, name) == {i \in 1..Len(coll) : coll[i].username = name}

Min(S) == CHOOSE i \in S : \A j \in S : i <= j

\* collection.find_one({"username": name}): the first match in natural order
find_one(coll, name) ==
    IF Matching(coll, name) = {} THEN NoDoc ELSE coll[Min(Matching(coll, name))]

user_data(name, email, password, salt, now) ==
    [username |-> name, email |-> email,
     password |-> hash_password(password, salt),
     created_at |-> now,
     analytics |-> [total_interactions |-> 0, sessions |-> <<>>,
                    topics |-> <<>>, avg_sentiment |-> <<1, 2>>]]

\* authenticate_user without the password check
authenticate_user_unverified(raised, name, password) ==
    IF raised THEN <<FALSE, NoDoc>>
    ELSE LET user == find_one(users, name)
         IN  IF user # NoDoc THEN <<TRUE, user>> ELSE <<FALSE, NoDoc>>

\* authenticate_user's return value <<success, user>>; raised: the lookup raises
authenticate_user(raised, name, password) ==
    IF raised THEN <<FALSE, NoDoc>>
    ELSE LET user == find_one(users, name)
         IN  IF user # NoDoc /\ verify_password(password, user.password)
             THEN <<TRUE, user>>
             ELSE <<FALSE, NoDoc>>

----------------------------------------------------------------------------
(* AI response generation.  remote is what hf_client.text_generation does: *)
(* [raised, text], text being the reply or the exception's str()           *)

NotInitialized == <<"AI model not initialized. Please check your Hugging Face token in Streamlit secrets.">>

ErrorMessage(e) ==
    <<"AI model error: ">> \o e \o <<". Please verify your Hugging Face token and model settings.">>

\* generate_ai_response handing on the exception's text as it is
generate_ai_response_bare(hf_client, user_input, context, remote) ==
    IF ~hf_client THEN NotInitialized ELSE remote.text

generate_ai_response(hf_client, user_input, context, remote) ==
    IF ~hf_client THEN NotInitialized
    ELSE IF remote.raised THEN ErrorMessage(remote.text)
    ELSE remote.text

----------------------------------------------------------------------------
(* Sentiment analysis.  analyzer is what sentiment_analyzer(text) does:    *)
(* [raised, results], results being results[0], a list of [label, score]   *)

RECURSIVE sentiment_sum(_)
sentiment_sum(results) ==
    IF results = <<>> THEN <<0, 1>>
    ELSE LET rest == sentiment_sum(Tail(results))
             result == Head(results)
         IN  IF result.label = "LABEL_2" THEN RAdd(rest, result.score)
             ELSE IF result.label = "LABEL_0" THEN RSub(rest, result.score)
             ELSE rest

\* sentiment_label with the two thresholds counted in
sentiment_label_inclusive(sentiment_score) ==
    IF ~RLess(sentiment_score, <<3, 5>>) THEN "Positive"
    ELSE IF ~RLess(<<2, 5>>, sentiment_score) THEN "Negative"
    ELSE "Neutral"

sentiment_label(sentiment_score) ==
    IF RLess(<<3, 5>>, sentiment_score) THEN "Positive"
    ELSE IF RLess(sentiment_score, <<2, 5>>) THEN "Negative"
    ELSE "Neutral"

\* analyze_sentiment thresholding the unset score when the analyzer raises
analyze_sentiment_unset(analyzer) ==
    IF analyzer.raised THEN <<(<<0, 1>>), sentiment_label(<<0, 1>>)>>
    ELSE LET sentiment_score ==
                 RDivInt(RAdd(sentiment_sum(analyzer.results), <<1, 1>>), 2)
         IN  <<sentiment_score, sentiment_label(sentiment_score)>>

\* analyze_sentiment's return value <<sentiment_score, sentiment_label>>
analyze_sentiment(analyzer) ==
    IF analyzer.raised THEN <<(<<1, 2>>), "Neutral">>
    ELSE LET sentiment_score ==
                 RDivInt(RAdd(sentiment_sum(analyzer.results), <<1, 1>>), 2)
         IN  <<sentiment_score, sentiment_label(sentiment_score)>>

----------------------------------------------------------------------------
(* The documents save_interaction writes *)

interaction_data(name, user_input, ai_response, sentiment_score, now) ==
    [username |-> name, user_input |-> user_input, ai_response |-> ai_response,
     sentiment_score |-> sentiment_score, timestamp |-> now]

\* update_one with the $inc and without the $push
update_one_inc_only(coll, name, sentiment_score, now) ==
    IF Matching(coll, name) = {} THEN coll
    ELSE LET i == Min(Matching(coll, name))
             a == coll[i].analytics
         IN  [coll EXCEPT ![i].analytics =
                 [a EXCEPT !.total_interactions = a.total_interactions + 1]]

\* update_one putting a new document in the place of the matched one
update_one_replacing(coll, name, sentiment_score, now) ==
    IF Matching(coll, name) = {} THEN coll
    ELSE [coll EXCEPT ![Min(Matching(coll, name))] =
             [@ EXCEPT !.password = hash_password(<<>>, "x"),
                       !.analytics.total_interactions = 1]]

\* users.update_one({"username": name}, {$inc total_interactions, $push sessions}):
\* one update of the first match, nothing when there is none
update_one(coll, name, sentiment_score, now) ==
    IF Matching(coll, name) = {} THEN coll
    ELSE LET i == Min(Matching(coll, name))
             a == coll[i].analytics
         IN  [coll EXCEPT ![i].analytics =
                 [a EXCEPT !.total_interactions = a.total_interactions + 1,
                           !.sessions = Append(a.sessions,
                               [timestamp |-> now, sentiment |-> sentiment_score])]]

\* new_avg weighting the old average by the new count
new_avg_by_count(current_avg, total_interactions, sentiment_score) ==
    RDivInt(RAdd(RMulInt(current_avg, total_interactions), sentiment_score),
            total_interactions)

\* new_avg = ((current_avg * (total_interactions - 1)) + sentiment_score) / total_interactions
new_avg(current_avg, total_interactions, sentiment_score) ==
    RDivInt(RAdd(RMulInt(current_avg, total_interactions - 1), sentiment_score),
            total_interactions)

----------------------------------------------------------------------------
(* Small input sets of the remote services *)

\* sentiment_analyzer(text) raises, or returns what the loop cannot read
AnalyzerRaises == [raised |-> TRUE, results |-> <<>>]

AnalyzerPositive ==
    [raised |-> FALSE, results |-> << [label |-> "LABEL_0", score |-> <<1, 10>>],
                                      [label |-> "LABEL_1", score |-> <<1, 10>>],
                                      [label |-> "LABEL_2", score |-> <<4, 5>>] >>]

AnalyzerNegative ==
    [raised |-> FALSE, results |-> << [label |-> "LABEL_0", score |-> <<7, 10>>],
                                      [label |-> "LABEL_1", score |-> <<1, 5>>],
                                      [label |-> "LABEL_2", score |-> <<1, 10>>] >>]

AnalyzerOutputs == {AnalyzerRaises, AnalyzerPositive, AnalyzerNegative}

RemoteReplies == [raised |-> FALSE, text |-> <<"o", "k">>]

RemoteRaises == [raised |-> TRUE, text |-> <<"4", "0", "1">>]

RemoteOutputs == {RemoteReplies, RemoteRaises}

InitialAnalytics ==
    [total_interactions |-> 0, avg_sentiment |-> <<1, 2>>, start_time |-> 0]

Idle(s) == pc[s] = "idle"

RECURSIVE SumTotals(_)
SumTotals(S) ==
    IF S = {} THEN 0
    ELSE LET s == CHOOSE x \in S : TRUE
         IN  user_analytics[s].total_interactions + SumTotals(S \ {s})

Inserting == {s \in Sessions : pc[s] = "register_insert"}

----------------------------------------------------------------------------
Init ==
    /\ db \in BOOLEAN
    /\ ai \in { [sa |-> FALSE, hf |-> FALSE], [sa |-> TRUE, hf |-> FALSE],
                [sa |-> TRUE, hf |-> TRUE] }
    /\ users = <<>>
    /\ interactions = <<>>
    /\ clock = 0
    /\ authenticated = [s \in Sessions |-> FALSE]
    /\ username = [s \in Sessions |-> None]
    /\ chat_history = [s \in Sessions |-> <<>>]
    /\ user_analytics = [s \in Sessions |-> InitialAnalytics]
    /\ pc = [s \in Sessions |-> "idle"]
    /\ pending = [s \in Sessions |-> NoDoc]
    /\ registered = {}
    /\ save_failed = FALSE
    /\ score_sum = [s \in Sessions |-> <<0, 1>>]
    /\ ignored = NoCall
    /\ call = NoCall

\* datetime.now() at line 252: the time of the last read, or a later one
Now(E) == {now \in {clock + d : d \in E.ticks} : now <= MaxClock}

----------------------------------------------------------------------------
(* show_auth_page: the Login button.  raised: users.find_one raises *)

Login(s, name, password, raised) ==
    /\ Idle(s)
    /\ IF truthy(name) /\ truthy(password) /\ db
       THEN LET r == authenticate_user(raised, name, password)
            IN  /\ authenticated' = [authenticated EXCEPT ![s] = IF r[1] THEN TRUE ELSE @]
                /\ username' = [username EXCEPT ![s] = IF r[1] THEN name ELSE @]
       ELSE UNCHANGED <<authenticated, username>>
    /\ UNCHANGED <<db, ai, store, clock, chat_history, user_analytics, pc, pending,
                   history, call>>

----------------------------------------------------------------------------
(* show_auth_page: the Register button.  register_user's existence check   *)
(* and its insert are two store operations, so other sessions act between  *)

\* the form's checks without the comparison of the two passwords
register_form_unconfirmed(name, email, password, confirm) ==
    /\ truthy(name) /\ truthy(email) /\ truthy(password) /\ truthy(confirm)
    /\ db

\* the form's checks before register_user is called
register_form_ok(name, email, password, confirm) ==
    /\ truthy(name) /\ truthy(email) /\ truthy(password) /\ truthy(confirm)
    /\ password = confirm
    /\ db

\* register_user up to hash_password; raised: users.find_one raises
RegisterBegin(s, name, email, password, confirm, salt, raised) ==
    /\ Idle(s)
    /\ IF register_form_ok(name, email, password, confirm)
       THEN IF raised \/ find_one(users, name) # NoDoc
            THEN UNCHANGED <<pc, pending>>
            ELSE /\ Len(users) + Cardinality(Inserting) < MaxUsers
                 /\ pc' = [pc EXCEPT ![s] = "register_insert"]
                 /\ pending' = [pending EXCEPT ![s] =
                       [kind |-> "user", password |-> password,
                        confirm_password |-> confirm,
                        doc |-> user_data(name, email, password, salt, clock)]]
       ELSE UNCHANGED <<pc, pending>>
    /\ UNCHANGED <<db, ai, store, clock, session_state, history, call>>

\* insert_one sent a second time
insert_one_twice(coll, document) == Append(Append(coll, document), document)

\* collection.insert_one(document)
insert_one(coll, document) == Append(coll, document)

\* users_collection.insert_one(user_data), then the return
RegisterInsert(s, raised) ==
    /\ pc[s] = "register_insert"
    /\ pc' = [pc EXCEPT ![s] = "idle"]
    /\ pending' = [pending EXCEPT ![s] = NoDoc]
    /\ IF raised
       THEN UNCHANGED <<users, registered>>
       ELSE /\ users' = insert_one(users, pending[s].doc)
            /\ registered' = registered \cup {<<pending[s].doc.username, pending[s].password>>}
    /\ UNCHANGED <<db, ai, interactions, clock, session_state, save_failed,
                   score_sum, ignored, call>>

show_auth_page(s, E) ==
    \/ \E name \in E.names, password \in E.passwords, raised \in E.auth_raises :
          Login(s, name, password, raised)
    \/ \E name \in E.names, email \in E.emails, password \in E.passwords,
          confirm \in E.passwords, salt \in E.salts, raised \in E.auth_raises :
          RegisterBegin(s, name, email, password, confirm, salt, raised)

----------------------------------------------------------------------------
(* show_main_app: the Logout button *)

\* Logout leaving the username in the session
Logout_keeps_username(s) ==
    /\ Idle(s)
    /\ authenticated' = [authenticated EXCEPT ![s] = FALSE]
    /\ chat_history' = [chat_history EXCEPT ![s] = <<>>]
    /\ UNCHANGED <<db, ai, store, clock, username, user_analytics, pc, pending,
                   history, call>>

\* Logout starting the session's analytics afresh as well
Logout_fresh(s) ==
    /\ Idle(s)
    /\ authenticated' = [authenticated EXCEPT ![s] = FALSE]
    /\ username' = [username EXCEPT ![s] = None]
    /\ chat_history' = [chat_history EXCEPT ![s] = <<>>]
    /\ user_analytics' = [user_analytics EXCEPT ![s] = InitialAnalytics]
    /\ UNCHANGED <<db, ai, store, clock, pc, pending, history, call>>

Logout(s) ==
    /\ Idle(s)
    /\ authenticated' = [authenticated EXCEPT ![s] = FALSE]
    /\ username' = [username EXCEPT ![s] = None]
    /\ chat_history' = [chat_history EXCEPT ![s] = <<>>]
    /\ UNCHANGED <<db, ai, store, clock, user_analytics, pc, pending, history, call>>

(* show_main_app: the Send button, up to the build of interaction_data *)

\* the first condition of Send without the second
send_without_clients(user_input) == truthy(user_input)

\* if send_button and user_input: if hf_client and sentiment_analyzer:
send_processed(user_input) == truthy(user_input) /\ ai.hf /\ ai.sa

send_context(s) == <<"Previous interactions: ", Len(chat_history[s])>>

Send(s, user_input, analyzer, remote, now) ==
    /\ Idle(s)
    /\ IF send_processed(user_input)
       THEN LET sentiment == analyze_sentiment(analyzer)
                ai_response == generate_ai_response(ai.hf, user_input,
                                                    send_context(s), remote)
                total_interactions == user_analytics[s].total_interactions + 1
            IN  /\ SumTotals(Sessions) < MaxSends
                /\ chat_history' = [chat_history EXCEPT ![s] =
                      Append(Append(@, [role |-> "user", message |-> user_input,
                                        sentiment |-> ""]),
                             [role |-> "assistant", message |-> ai_response,
                              sentiment |-> sentiment[2]])]
                /\ user_analytics' = [user_analytics EXCEPT
                      ![s].total_interactions = total_interactions,
                      ![s].avg_sentiment = new_avg(@, total_interactions,
                                                   sentiment[1])]
                /\ score_sum' = [score_sum EXCEPT ![s] = RAdd(@, sentiment[1])]
                /\ IF db
                   THEN /\ pc' = [pc EXCEPT ![s] = "save_insert"]
                        /\ pending' = [pending EXCEPT ![s] =
                              [kind |-> "interaction",
                               doc |-> interaction_data(username[s], user_input,
                                           ai_response, sentiment[1], now)]]
                        /\ clock' = now
                   ELSE UNCHANGED <<pc, pending, clock>>
                /\ UNCHANGED ignored
       ELSE /\ ignored' = [fn |-> "Send", session |-> s, user_input |-> user_input]
            /\ UNCHANGED <<chat_history, user_analytics, score_sum, pc, pending, clock>>
    /\ UNCHANGED <<db, ai, store, authenticated, username, registered,
                   save_failed, call>>

----------------------------------------------------------------------------
(* show_main_app: the sentiment trend drawn from the transcript.  A label  *)
(* is modelled by the word it holds                                        *)

\* the score read from an entry's sentiment tag
trend_score(sentiment) ==
    IF sentiment = "Positive" THEN <<4, 5>>
    ELSE IF sentiment = "Negative" THEN <<1, 5>>
    ELSE <<1, 2>>

\* the trend drawn from the entries of the assistant
RECURSIVE sentiments_of_replies(_)
sentiments_of_replies(entries) ==
    IF entries = <<>> THEN <<>>
    ELSE (IF Head(entries).role = "assistant"
          THEN <<RMulInt(trend_score(Head(entries).sentiment), 100)>>
          ELSE <<>>) \o sentiments_of_replies(Tail(entries))

\* sentiments: one point, score * 100, for every entry whose role is user
RECURSIVE sentiments(_)
sentiments(entries) ==
    IF entries = <<>> THEN <<>>
    ELSE (IF Head(entries).role = "user"
          THEN <<RMulInt(trend_score(Head(entries).sentiment), 100)>>
          ELSE <<>>) \o sentiments(Tail(entries))

----------------------------------------------------------------------------
(* save_interaction: interactions.insert_one, then users.update_one; an    *)
(* exception of either is reported with st.error and ends the function     *)

SaveInsert(s, raised) ==
    /\ pc[s] = "save_insert"
    /\ IF raised
       THEN /\ pc' = [pc EXCEPT ![s] = "idle"]
            /\ pending' = [pending EXCEPT ![s] = NoDoc]
            /\ save_failed' = TRUE
            /\ UNCHANGED interactions
       ELSE /\ interactions' = insert_one(interactions, pending[s].doc)
            /\ pc' = [pc EXCEPT ![s] = "save_update"]
            /\ UNCHANGED <<pending, save_failed>>
    /\ UNCHANGED <<db, ai, users, clock, session_state, registered, score_sum,
                   ignored, call>>

SaveUpdate(s, raised) ==
    /\ pc[s] = "save_update"
    /\ pc' = [pc EXCEPT ![s] = "idle"]
    /\ pending' = [pending EXCEPT ![s] = NoDoc]
    /\ IF raised
       THEN /\ save_failed' = TRUE
            /\ UNCHANGED users
       ELSE /\ users' = update_one(users, pending[s].doc.username,
                                   pending[s].doc.sentiment_score, clock)
            /\ UNCHANGED save_failed
    /\ UNCHANGED <<db, ai, interactions, clock, session_state, registered,
                   score_sum, ignored, call>>

show_main_app(s, E) ==
    \/ Logout(s)
    \/ \E user_input \in E.inputs, analyzer \in E.analyzers,
          remote \in E.remotes, now \in Now(E) :
          Send(s, user_input, analyzer, remote, now)

\* main() showing the chat page to everyone
main_unguarded(s, E) ==
    show_auth_page(s, E) \/ show_main_app(s, E)

\* main(): the page the session's script run shows
main(s, E) ==
    IF ~authenticated[s] THEN show_auth_page(s, E) ELSE show_main_app(s, E)

\* the store operation a running handler has reached
Continue(s, E) ==
    \/ \E raised \in E.auth_raises : RegisterInsert(s, raised)
    \/ \E raised \in E.save_raises : SaveInsert(s, raised)
    \/ \E raised \in E.save_raises : SaveUpdate(s, raised)

NextIn(E) ==
    \/ \E s \in E.sessions : main(s, E)
    \/ \E s \in E.sessions : Continue(s, E)

----------------------------------------------------------------------------
(* The specifications: the same program in three environments, each small  *)
(* enough to explore in full                                                *)

\* two sessions, every login and registration input, plain messages
AuthEnv ==
    [sessions |-> Sessions,
     names |-> Usernames \cup {Empty}, passwords |-> Passwords \cup {Empty},
     emails |-> Emails \cup {Empty}, salts |-> Salts, auth_raises |-> BOOLEAN,
     inputs |-> {<<"h", "i">>}, analyzers |-> {AnalyzerRaises},
     remotes |-> {RemoteReplies}, save_raises |-> {FALSE}, ticks |-> {0}]

\* one session, every message input and every failure of a remote call
ChatEnv ==
    [sessions |-> {"s1"},
     names |-> {<<"a">>}, passwords |-> {<<"1">>},
     emails |-> Emails, salts |-> {"x"}, auth_raises |-> {FALSE},
     inputs |-> ChatInputs, analyzers |-> AnalyzerOutputs,
     remotes |-> RemoteOutputs, save_raises |-> BOOLEAN, ticks |-> {0, 1}]

\* two sessions of one or two owners saving interactions side by side
StoreEnv ==
    [sessions |-> Sessions,
     names |-> Usernames, passwords |-> {<<"1">>},
     emails |-> Emails, salts |-> {"x"}, auth_raises |-> {FALSE},
     inputs |-> {<<"h", "i">>}, analyzers |-> {AnalyzerRaises, AnalyzerPositive},
     remotes |-> {RemoteReplies}, save_raises |-> BOOLEAN, ticks |-> {0, 1}]

NextAuth == NextIn(AuthEnv)
NextChat == NextIn(ChatEnv)
NextStore == NextIn(StoreEnv)

SpecAuth == Init /\ [][NextAuth]_vars
SpecChat == Init /\ [][NextChat]_vars
SpecStore == Init /\ [][NextStore]_vars

----------------------------------------------------------------------------
(* Retrieval of an owner's messages (4.2 load): the owner's interaction    *)
(* documents in ascending timestamp order, each holding the two messages   *)
(* of one ask/reply cycle                                                   *)

RECURSIVE insert_sorted(_, _)
insert_sorted(sorted, document) ==
    IF sorted = <<>> THEN <<document>>
    ELSE IF Head(sorted).timestamp <= document.timestamp
    THEN <<Head(sorted)>> \o insert_sorted(Tail(sorted), document)
    ELSE <<document>> \o sorted

RECURSIVE sort_by_timestamp(_)
sort_by_timestamp(documents) ==
    IF documents = <<>> THEN <<>>
    ELSE insert_sorted(sort_by_timestamp(SubSeq(documents, 1, Len(documents) - 1)),
                       documents[Len(documents)])

owned(document, owner) == document.username = owner

RECURSIVE filter_owner(_, _)
filter_owner(documents, owner) ==
    IF documents = <<>> THEN <<>>
    ELSE (IF owned(Head(documents), owner) THEN <<Head(documents)>> ELSE <<>>)
         \o filter_owner(Tail(documents), owner)

RECURSIVE messages_of(_)
messages_of(documents) ==
    IF documents = <<>> THEN <<>>
    ELSE << [owner |-> Head(documents).username, role |-> "user",
             text |-> Head(documents).user_input,
             timestamp |-> Head(documents).timestamp],
            [owner |-> Head(documents).username, role |-> "assistant",
             text |-> Head(documents).ai_response,
             timestamp |-> Head(documents).timestamp] >>
         \o messages_of(Tail(documents))

load(coll, owner) == messages_of(sort_by_timestamp(filter_owner(coll, owner)))

----------------------------------------------------------------------------
(* generate_ai_response called directly, on every client, input, context   *)
(* and behaviour of the text-generation call                                *)

GenerateRemotes ==
    RemoteOutputs \cup { [raised |-> FALSE, text |-> <<>>],
                         [raised |-> TRUE, text |-> <<>>],
                         [raised |-> TRUE, text |-> <<"t", "i", "m", "e", "o", "u", "t">>] }

GenerateCall(hf_client, user_input, n, remote) ==
    /\ call' = [fn |-> "generate_ai_response", hf_client |-> hf_client,
                user_input |-> user_input, remote |-> remote,
                context |-> <<"Previous interactions: ", n>>,
                result |-> generate_ai_response(hf_client, user_input,
                               <<"Previous interactions: ", n>>, remote)]
    /\ UNCHANGED <<db, ai, store, clock, session_state, pc, pending, history>>

NextGenerate ==
    \E hf_client \in BOOLEAN, user_input \in ChatInputs, n \in 0..MaxContext,
       remote \in GenerateRemotes :
        GenerateCall(hf_client, user_input, n, remote)

SpecGenerate == Init /\ [][NextGenerate]_vars

----------------------------------------------------------------------------
(* analyze_sentiment called directly, on every text and on every output of *)
(* the analyzer: class probabilities in fifths that sum to at most 1, the  *)
(* two-class labels of the lighter model, and an exception                 *)

Fifths == 0..5

ClassifyTexts ==
    { <<"h", "i">>, <<"L", "o", "v", "e">>, <<"h", "a", "t", "e">>,
      <<"l", "o", "v", "e", " ", "h", "a", "t", "e">> }

ThreeClasses ==
    { [raised |-> FALSE,
       results |-> << [label |-> "LABEL_0", score |-> Rat(n, 5)],
                      [label |-> "LABEL_1", score |-> Rat(u, 5)],
                      [label |-> "LABEL_2", score |-> Rat(p, 5)] >>] :
      <<n, u, p>> \in {c \in Fifths \X Fifths \X Fifths : c[1] + c[2] + c[3] <= 5} }

TwoClasses ==
    { [raised |-> FALSE,
       results |-> << [label |-> "NEGATIVE", score |-> Rat(n, 5)],
                      [label |-> "POSITIVE", score |-> Rat(5 - n, 5)] >>] :
      n \in Fifths }

ClassifyAnalyzers == ThreeClasses \cup TwoClasses \cup {AnalyzerRaises}

ClassifyCall(text, analyzer) ==
    /\ call' = [fn |-> "analyze_sentiment", text |-> text, analyzer |-> analyzer,
                result |-> analyze_sentiment(analyzer)]
    /\ UNCHANGED <<db, ai, store, clock, session_state, pc, pending, history>>

NextClassify ==
    \E text \in ClassifyTexts, analyzer \in ClassifyAnalyzers :
        ClassifyCall(text, analyzer)

SpecClassify == Init /\ [][NextClassify]_vars

----------------------------------------------------------------------------
(* The local keyword strategy of the classifier (4.3): occurrences of the  *)
(* words of a positive and of a negative list in the lower-cased text      *)

PositiveWords == { <<"l", "o", "v", "e">> }
NegativeWords == { <<"h", "a", "t", "e">> }

lower(text) ==
    [i \in DOMAIN text |-> IF text[i] = "L" THEN "l"
                           ELSE IF text[i] = "H" THEN "h" ELSE text[i]]

occurrences(word, text) ==
    Cardinality({i \in 1..(Len(text) - Len(word) + 1) :
                    SubSeq(text, i, i + Len(word) - 1) = word})

RECURSIVE word_count(_, _)
word_count(words, text) ==
    IF words = {} THEN 0
    ELSE LET word == CHOOSE w \in words : TRUE
         IN  occurrences(word, lower(text)) + word_count(words \ {word}, text)

keyword_sentiment(text) ==
    LET positive == word_count(PositiveWords, text)
        negative == word_count(NegativeWords, text)
    IN  IF positive > negative THEN <<(<<7, 10>>), "Positive">>
        ELSE IF negative > positive THEN <<(<<3, 10>>), "Negative">>
        ELSE <<(<<1, 2>>), "Neutral">>

----------------------------------------------------------------------------
(* Properties *)

\* C2 as stated: in every reachable state no two records of the users
\* collection carry the same username
UsernamesUnique ==
    \A i, j \in DOMAIN users :
        users[i].username = users[j].username => i = j

\* C1 as stated (read without store errors): whoever register_user accepted
\* can authenticate afterwards with the same username and password
RegisteredCanAuthenticate ==
    \A r \in registered : authenticate_user(FALSE, r[1], r[2])[1]

GenerateUnavailable ==
    /\ call.fn = "generate_ai_response"
    /\ ~call.hf_client \/ call.remote.raised

\* the responses the function holds as fixed texts
FallbackResponses == {NotInitialized}

SendStep(s, user_input) ==
    \E analyzer \in AnalyzerOutputs, remote \in RemoteOutputs :
        Send(s, user_input, analyzer, remote, clock')

\* C3 as stated: a Send whose input is empty or only whitespace changes
\* neither collection, nor the transcript, nor the aggregates, and starts no
\* store write
BlankSendChangesNothing ==
    [][\A s \in Sessions, user_input \in ChatInputs :
          SendStep(s, user_input) /\ is_blank(user_input)
              => UNCHANGED <<users, interactions, chat_history, user_analytics, pc>>]_vars

\* C5: once a session has processed N >= 1 interactions its avg_sentiment is
\* the sum of their N scores divided by N
RunningMeanIsMean ==
    \A s \in Sessions :
        user_analytics[s].total_interactions >= 1 =>
            user_analytics[s].avg_sentiment =
                RDivInt(score_sum[s], user_analytics[s].total_interactions)

TwoScoresAveraged ==
    /\ user_analytics["s1"].total_interactions = 2
    /\ score_sum["s1"] = <<21, 20>>
    /\ user_analytics["s1"].avg_sentiment = <<21, 40>>

\* what a processed Send adds to the session, with the fallback values of a
\* failed classification and a failed generation
Gained(s, user_input, analyzer, remote) ==
    /\ Len(chat_history'[s]) = Len(chat_history[s]) + 2
    /\ SubSeq(chat_history'[s], 1, Len(chat_history[s])) = chat_history[s]
    /\ chat_history'[s][Len(chat_history[s]) + 1] =
          [role |-> "user", message |-> user_input, sentiment |-> ""]
    /\ chat_history'[s][Len(chat_history[s]) + 2].role = "assistant"
    /\ analyzer.raised =>
          chat_history'[s][Len(chat_history[s]) + 2].sentiment = "Neutral"
    /\ remote.raised =>
          chat_history'[s][Len(chat_history[s]) + 2].message[1] = "AI model error: "
    /\ user_analytics'[s].total_interactions =
          user_analytics[s].total_interactions + 1
    /\ analyzer.raised =>
          user_analytics'[s].avg_sentiment =
              RDivInt(RAdd(RMulInt(user_analytics[s].avg_sentiment,
                                   user_analytics[s].total_interactions), <<1, 2>>),
                      user_analytics[s].total_interactions + 1)
    /\ db => pc'[s] = "save_insert"

Failing(analyzer, remote) == analyzer.raised \/ remote.raised

\* a Send whose classification or generation fails is processed all the same
RemoteFailureProcessed ==
    \A s \in Sessions, user_input \in ChatInputs, analyzer \in AnalyzerOutputs,
       remote \in RemoteOutputs :
        /\ Send(s, user_input, analyzer, remote, clock')
        /\ truthy(user_input) /\ ai.hf /\ ai.sa /\ Failing(analyzer, remote)
        => Gained(s, user_input, analyzer, remote)

Saving(s) == pc[s] \in {"save_insert", "save_update"}

\* while save_interaction runs, the interaction is already in the session
SavedAfterSession ==
    \A s \in Sessions :
        Saving(s) =>
            /\ Len(chat_history[s]) >= 2
            /\ chat_history[s][Len(chat_history[s]) - 1] =
                  [role |-> "user", message |-> pending[s].doc.user_input,
                   sentiment |-> ""]
            /\ chat_history[s][Len(chat_history[s])].message =
                  pending[s].doc.ai_response
            /\ user_analytics[s].total_interactions >= 1

\* and no step of save_interaction, failed or not, takes it back
SaveKeepsSession ==
    \A s \in Sessions :
        Saving(s) =>
            /\ chat_history'[s] = chat_history[s]
            /\ user_analytics'[s] = user_analytics[s]

\* C6: a failed classification or generation leaves the Send processed with
\* the fallback value, and a failed store write leaves the transcript entries
\* and the aggregates of the Send in place
FailuresDoNotAbort ==
    /\ []SavedAfterSession
    /\ [][RemoteFailureProcessed /\ SaveKeepsSession]_vars

\* a save has failed and the session still holds the exchange, whose reply is
\* the error text and whose label is the fallback
FailedSaveReached ==
    /\ save_failed /\ Idle("s1")
    /\ Len(chat_history["s1"]) = 2
    /\ chat_history["s1"][2].message[1] = "AI model error: "
    /\ chat_history["s1"][2].sentiment = "Neutral"
    /\ interactions = <<>>

\* what load returns is the owner's, in non-decreasing timestamp order
LoadOrdered ==
    \A owner \in Usernames :
        LET messages == load(interactions, owner)
        IN  /\ \A i \in DOMAIN messages : messages[i].owner = owner
            /\ \A i, j \in DOMAIN messages :
                  i < j => messages[i].timestamp <= messages[j].timestamp
            /\ Len(messages) =
                  2 * Cardinality({i \in DOMAIN interactions :
                                      interactions[i].username = owner})

\* the insert of save_interaction succeeds: the owner has two messages more,
\* every other owner as many as before
InsertAddsTwo ==
    \A s \in Sessions :
        pc[s] = "save_insert" /\ pc'[s] = "save_update" =>
            \A owner \in Usernames :
                Len(load(interactions', owner)) =
                    Len(load(interactions, owner))
                    + (IF owner = pending[s].doc.username THEN 2 ELSE 0)

\* the rest of the cycle, and everything else, adds none
OnlyInsertAdds ==
    (\A s \in Sessions : ~(pc[s] = "save_insert" /\ pc'[s] = "save_update")) =>
        \A owner \in Usernames :
            Len(load(interactions', owner)) = Len(load(interactions, owner))

Stored(owner) == {i \in DOMAIN interactions : interactions[i].username = owner}

FirstRecord(owner) ==
    {i \in DOMAIN users : /\ users[i].username = owner
                          /\ \A j \in 1..(i - 1) : users[j].username # owner}

\* C10: an owner's total_interactions never exceeds the number of the
\* owner's interaction documents, and equals it and the length of sessions
\* when no save_interaction is running and none has failed
AnalyticsMatchInteractions ==
    \A owner \in Usernames : \A i \in FirstRecord(owner) :
        LET analytics == users[i].analytics
        IN  /\ analytics.total_interactions <= Cardinality(Stored(owner))
            /\ (\A s \in Sessions : ~Saving(s)) /\ ~save_failed =>
                  /\ analytics.total_interactions = Cardinality(Stored(owner))
                  /\ analytics.total_interactions = Len(analytics.sessions)

\* two sessions of one owner have both saved
TwoSessionsSaved ==
    /\ username["s1"] = username["s2"] /\ authenticated["s1"]
    /\ Len(chat_history["s1"]) = 2 /\ Len(chat_history["s2"]) = 2
    /\ Len(interactions) = 2
    /\ \A s \in Sessions : Idle(s)
    /\ ~save_failed
    /\ \E i \in DOMAIN users : users[i].analytics.total_interactions = 2

\* a session that is not authenticated processes nothing
UnauthenticatedIdle ==
    \A s \in Sessions :
        ~authenticated[s] =>
            /\ chat_history'[s] = chat_history[s]
            /\ user_analytics'[s] = user_analytics[s]
            /\ ~(pc'[s] \in {"save_insert", "save_update"})

\* an interaction document is written by an authenticated session, as its own
WrittenByAuthenticated ==
    interactions' # interactions =>
        \E s \in Sessions :
            /\ authenticated[s] /\ pc[s] = "save_insert"
            /\ pending[s].doc.username = username[s]
            /\ interactions' = Append(interactions, pending[s].doc)

SavingIsAuthenticated == \A s \in Sessions : Saving(s) => authenticated[s]

\* C9: the transcript, the aggregates and the interactions collection change
\* only for a session that is authenticated
ProcessedOnlyAuthenticated ==
    /\ []SavingIsAuthenticated
    /\ [][UnauthenticatedIdle /\ WrittenByAuthenticated]_vars

\* a session has processed and stored a message and has logged out again
ProcessedThenLoggedOut ==
    /\ ~authenticated["s1"] /\ user_analytics["s1"].total_interactions = 1
    /\ Len(interactions) = 1
    /\ authenticated["s2"]

\* authenticate_user succeeds exactly on the record found for the username
\* when the password verifies against its hash, and returns that record
AuthenticateIff ==
    \A name \in Usernames \cup {Empty}, password \in Passwords \cup {Empty},
       raised \in BOOLEAN :
        LET r == authenticate_user(raised, name, password)
            found == {i \in FirstRecord(name) :
                         users[i].password.digest = <<users[i].password.salt>> \o password}
        IN  /\ r[1] <=> (~raised /\ found # {})
            /\ r[1] => \A i \in found : r[2] = users[i]
            /\ ~r[1] => r[2] = NoDoc

\* authenticated turns true only by a Login that authenticate_user accepts
FlagOnlyByLogin ==
    \A s \in Sessions :
        ~authenticated[s] /\ authenticated'[s] =>
            /\ db
            /\ \E password \in Passwords :
                  authenticate_user(FALSE, username'[s], password)[1]

Classified == call.fn = "analyze_sentiment"

\* the sum of the class probabilities of an analyzer output
ProbabilityOf(analyzer, label) ==
    LET at == {i \in DOMAIN analyzer.results : analyzer.results[i].label = label}
    IN  IF at = {} THEN <<0, 1>> ELSE analyzer.results[CHOOSE i \in at : TRUE].score

\* C11: analyze_sentiment returns a score in [0,1] and the label of that
\* score: Positive above 0.6, Negative below 0.4, Neutral otherwise, with 0.6
\* and 0.4 themselves Neutral; when the analyzer raises, 0.5 and Neutral
ScoreAndLabelAgree ==
    Classified =>
        LET sentiment_score == call.result[1]
            label == call.result[2]
        IN  /\ ~RLess(sentiment_score, <<0, 1>>) /\ ~RLess(<<1, 1>>, sentiment_score)
            /\ label = "Positive" <=> RLess(<<3, 5>>, sentiment_score)
            /\ label = "Negative" <=> RLess(sentiment_score, <<2, 5>>)
            /\ label = "Neutral" <=>
                  ~RLess(<<3, 5>>, sentiment_score) /\ ~RLess(sentiment_score, <<2, 5>>)
            /\ call.analyzer.raised => call.result = <<(<<1, 2>>), "Neutral">>
            /\ ~call.analyzer.raised =>
                  sentiment_score =
                      RDivInt(RAdd(RSub(ProbabilityOf(call.analyzer, "LABEL_2"),
                                        ProbabilityOf(call.analyzer, "LABEL_0")),
                                   <<1, 1>>), 2)

\* a score of exactly 0.6 has been given the label Neutral
ThresholdScoreNeutral ==
    /\ Classified /\ ~call.analyzer.raised
    /\ call.result = <<(<<3, 5>>), "Neutral">>

\* C12 as stated: when the analyzer raises or its response is malformed the
\* result is the keyword strategy's for the text: Positive 0.7, Negative 0.3
\* or Neutral 0.5 by the counts of positive and negative words
FailedClassificationUsesKeywords ==
    Classified /\ call.analyzer.raised =>
        call.result = keyword_sentiment(call.text)

\* no record leaves either collection; a user record keeps its username and
\* its password hash, an interaction document everything
StoreGrows ==
    /\ Len(users') >= Len(users)
    /\ \A i \in DOMAIN users :
          /\ users'[i].username = users[i].username
          /\ users'[i].password = users[i].password
    /\ Len(interactions') >= Len(interactions)
    /\ \A i \in DOMAIN interactions : interactions'[i] = interactions[i]

\* C13: across register, login, send and logout no user record and no
\* interaction document is deleted, no interaction document is modified
\* after its insert, and no user record's username or password hash changes
StoreOnlyGrows == [][StoreGrows]_vars

\* both collections have grown, the first user's analytics have been
\* updated, the password still verifies, and the session has logged out
StoreGrown ==
    /\ Len(users) = 2 /\ Len(interactions) = 2
    /\ users[1].analytics.total_interactions >= 1
    /\ verify_password(<<"1">>, users[1].password)
    /\ \A s \in Sessions : Idle(s)
    /\ ~authenticated["s1"] /\ user_analytics["s1"].total_interactions >= 1

\* C14 as stated: the count in the context handed to generate_ai_response
\* is the number of user-and-reply pairs the session's transcript holds
ContextCountsInteractions ==
    [][\A s \in Sessions, user_input \in ChatInputs :
          SendStep(s, user_input) /\ send_processed(user_input)
              => send_context(s)[2] = Len(chat_history[s]) \div 2]_vars

\* the Logout step of a session: what it sets and what it leaves alone
LogoutFrame ==
    \A s \in Sessions :
        authenticated[s] /\ ~authenticated'[s] =>
            /\ username'[s] = None
            /\ chat_history'[s] = <<>>
            /\ user_analytics'[s] = user_analytics[s]
            /\ UNCHANGED <<store, pc, pending>>

\* the Login step that follows starts from the empty transcript and keeps
\* the counter, the running mean and the start time
LoginKeepsAnalytics ==
    \A s \in Sessions :
        ~authenticated[s] /\ authenticated'[s] =>
            /\ chat_history[s] = <<>> /\ chat_history'[s] = <<>>
            /\ user_analytics'[s] = user_analytics[s]

StartTimeKept == \A s \in Sessions : user_analytics[s].start_time = 0

\* C15: Logout sets authenticated to false, username to None and the
\* transcript to empty and leaves user_analytics as it is, so a later login
\* in the session continues its counter and running mean
LogoutKeepsAnalytics ==
    /\ []StartTimeKept
    /\ [][LogoutFrame /\ LoginKeepsAnalytics]_vars

\* a session that sent as one user, logged out and logged in as another has
\* sent again: counter and mean cover both, the transcript the second only
AnalyticsAcrossLogins ==
    /\ authenticated["s1"] /\ username["s1"] = <<"b">>
    /\ Len(interactions) = 2 /\ interactions[1].username = <<"a">>
    /\ interactions[2].username = <<"b">>
    /\ Len(chat_history["s1"]) = 2
    /\ user_analytics["s1"].total_interactions = 2
    /\ user_analytics["s1"].avg_sentiment = <<27, 40>>

ClientsAvailable == ai.hf /\ ai.sa

\* without both clients no session has a transcript entry, a counted
\* interaction or a changed mean, no save runs and nothing is stored
NothingProcessedWithoutClients ==
    ~ClientsAvailable =>
        /\ interactions = <<>>
        /\ \A s \in Sessions :
              /\ chat_history[s] = <<>>
              /\ user_analytics[s] = InitialAnalytics
              /\ ~Saving(s)
        /\ \A i \in DOMAIN users : users[i].analytics.total_interactions = 0

\* a Send with non-empty input and a client missing changes nothing
SendWithoutClientsIdle ==
    \A s \in Sessions, user_input \in ChatInputs :
        SendStep(s, user_input) /\ truthy(user_input) /\ ~ClientsAvailable =>
            UNCHANGED <<users, interactions, chat_history, user_analytics, pc, pending>>

\* C16: when the generation client or the sentiment analyzer is None, a Send
\* with non-empty input appends no transcript entry, leaves total_interactions
\* and avg_sentiment as they are and makes no store write
SendWithoutClientsIgnored ==
    /\ []NothingProcessedWithoutClients
    /\ [][SendWithoutClientsIdle]_vars

\* a logged-in session has pressed Send on a message with the analyzer
\* available and the generation client missing
SendIgnoredReached ==
    /\ ignored.fn = "Send"
    /\ ignored.user_input = <<"h", "i">>
    /\ ai.sa /\ ~ai.hf /\ db
    /\ authenticated[ignored.session]
    /\ chat_history[ignored.session] = <<>>

\* the transcript is pairs of a user entry with the empty tag and an
\* assistant entry with a label, and every trend point is the neutral 50
TranscriptAlternates ==
    \A s \in Sessions :
        LET entries == chat_history[s]
        IN  /\ Len(entries) % 2 = 0
            /\ \A i \in DOMAIN entries :
                  IF i % 2 = 1
                  THEN entries[i].role = "user" /\ entries[i].sentiment = ""
                  ELSE /\ entries[i].role = "assistant"
                       /\ entries[i].sentiment \in {"Positive", "Neutral", "Negative"}
            /\ Len(sentiments(entries)) = Len(entries) \div 2
            /\ \A i \in DOMAIN sentiments(entries) : sentiments(entries)[i] = <<50, 1>>

\* the label the analyzer outputs of the chat stand for
LabelOf(analyzer) ==
    IF analyzer = AnalyzerPositive THEN "Positive"
    ELSE IF analyzer = AnalyzerNegative THEN "Negative"
    ELSE "Neutral"

\* a processed Send appends the user's message with the empty tag and then
\* the reply with the label computed for that message
ReplyCarriesLabel ==
    \A s \in Sessions, user_input \in ChatInputs, analyzer \in AnalyzerOutputs,
       remote \in RemoteOutputs :
        Send(s, user_input, analyzer, remote, clock') /\ send_processed(user_input) =>
            /\ Len(chat_history'[s]) = Len(chat_history[s]) + 2
            /\ chat_history'[s][Len(chat_history[s]) + 1] =
                  [role |-> "user", message |-> user_input, sentiment |-> ""]
            /\ chat_history'[s][Len(chat_history[s]) + 2].sentiment = LabelOf(analyzer)

\* C17: the transcript has even length and alternates user entry and
\* assistant entry; the user entry has the empty sentiment tag and the
\* assistant entry after it the label computed for that message, so every
\* trend point, read from the user entries, is the neutral value
TranscriptPairsNeutralTrend ==
    /\ []TranscriptAlternates
    /\ [][ReplyCarriesLabel]_vars

\* a positive and a negative message have been answered and the trend of
\* the session is flat all the same
FlatTrendReached ==
    /\ Len(chat_history["s1"]) = 4
    /\ chat_history["s1"][2].sentiment = "Positive"
    /\ chat_history["s1"][4].sentiment = "Negative"
    /\ sentiments(chat_history["s1"]) = << <<50, 1>>, <<50, 1>> >>

\* C18: in every reachable state a session's authenticated is true if and
\* only if its username is not None
AuthenticatedIffUsername ==
    \A s \in Sessions : authenticated[s] <=> username[s] # None

\* one session is logged in; the other has been, has sent and has logged out
LoggedInAndLoggedOut ==
    /\ authenticated["s2"] /\ username["s2"] = <<"b">>
    /\ ~authenticated["s1"] /\ username["s1"] = None
    /\ user_analytics["s1"].total_interactions = 1
    /\ Len(users) = 2

\* register_user is about to insert only what a complete form with two equal
\* passwords has given, with a database handle, in an unauthenticated session
InsertOnlyFromCompleteForm ==
    \A s \in Sessions :
        pc[s] = "register_insert" =>
            /\ db
            /\ truthy(pending[s].doc.username) /\ truthy(pending[s].doc.email)
            /\ truthy(pending[s].password) /\ truthy(pending[s].confirm_password)
            /\ pending[s].password = pending[s].confirm_password
            /\ pending[s].doc.password.digest =
                  <<pending[s].doc.password.salt>> \o pending[s].password
            /\ ~authenticated[s]

\* a user record enters the collection only by that insert
RecordOnlyByRegisterInsert ==
    Len(users') # Len(users) =>
        \E s \in Sessions :
            /\ pc[s] = "register_insert" /\ pc'[s] = "idle"
            /\ users' = Append(users, pending[s].doc)

\* a Register leaves the session as it is, whatever register_user returns
RegisterKeepsSession ==
    \A s \in Sessions :
        pc[s] = "register_insert" \/ pc'[s] = "register_insert" =>
            /\ ~authenticated'[s] /\ username'[s] = None
            /\ chat_history'[s] = chat_history[s]
            /\ user_analytics'[s] = user_analytics[s]

\* C19: a Register writes to the users collection only when username, email,
\* password and confirmation are non-empty, the two passwords are equal and
\* the database handle is there; otherwise the collection is unchanged; in
\* every case the session stays unauthenticated
RegisterWritesOnlyChecked ==
    /\ []InsertOnlyFromCompleteForm
    /\ [][RecordOnlyByRegisterInsert /\ RegisterKeepsSession]_vars

\* two registrations have succeeded and nobody is logged in
RegisteredStillLoggedOut ==
    /\ Len(users) = 2 /\ users[1].username # users[2].username
    /\ Cardinality(registered) = 2
    /\ interactions = <<>>
    /\ \A s \in Sessions :
          /\ ~authenticated[s] /\ username[s] = None /\ Idle(s)
          /\ user_analytics[s] = InitialAnalytics

====
